---- MODULE Spec2Model ----
(***************************************************************************)
(* The scheduling core of the pull-request reviewer: the discovery cycle   *)
(* (PRReviewer.run / check_new_prs), the worker loop (process_queue /      *)
(* process_pull_request), the sqlite store behind DatabaseManager and      *)
(* MetricsManager, and the comments posted through GitHubClient (Spec,     *)
(* FairSpec); analyze_diff with its inference calls on texts of the        *)
(* normalized shape (AnalysisSpec); process_diff_content on raw git diffs  *)
(* (NormalizerSpec); the loop of run against the wall clock (ClockSpec).   *)
(***************************************************************************)
EXTENDS Integers, Sequences, FiniteSets, TLC

\* ------------------------------------------------------------ bounds
NumPRs == 1
MaxQueue == 2
MaxFaults == 1
MaxHours == 2

\* ------------------------------------------------------------ program constants
\* Variant: a run() that starts a second processor thread.
TwoWorkerThreads == 1 + 1

\* run() starts one processor thread.
NumWorkerThreads == 1
\* Queue() is built with the default maxsize, 0: put never blocks.
QueueMaxsize == 0

PRs == 1..NumPRs
Workers == 1..NumWorkerThreads
\* datetime.now().minute, reduced to "on the hour" and "not on the hour"
Minutes == {0, 30}

\* ------------------------------------------------------------ texts
ErrorText(step) == step \o " raised"
NameErrorText == "name 'input_tokens' is not defined"
UnboundLocalErrorText == "cannot access local variable 'metric_id'"
FailedToGetDiff == "Failed to get diff"
FailedToSubmitReview == "Failed to submit review"
ReviewText == "review"
\* what get_pr_diff can hand back: None, "" (both falsy) or a processed diff
None == <<"None">>
NoDiff == <<>>
Diffs == {<<"File: a.py", "+x">>}

\* ------------------------------------------------------------ the sqlite store
\* One database file holds every table. A connection sees its own uncommitted
\* writes (working); the file keeps what was committed.
EmptyStore ==
    [processed_prs  |-> {},
     review_history |-> <<>>,
     pr_metrics     |-> <<>>,
     llm_metrics    |-> <<>>,
     daily_metrics  |-> <<>>]

Connect(store) == [committed |-> store, working |-> store]

Execute(conn, table, rows) == [conn EXCEPT !.working[table] = rows]

Commit(conn) == [conn EXCEPT !.committed = conn.working]

\* Variant: a get_connection that would commit on leaving the with-block.
CloseCommitting(conn) == conn.working

\* get_connection: `finally: conn.close()`. Closing does not commit: what the
\* connection wrote and did not commit is rolled back.
Close(conn) == conn.committed

IsPrProcessed(store, pr_number) ==
    \E row \in Connect(store).working.processed_prs : row.pr_number = pr_number

\* Variant: a mark_pr_processed that leaves out conn.commit().
MarkPrProcessedUncommitted(store, pr_number) ==
    LET conn == Connect(store) IN
    Close(Execute(conn, "processed_prs",
        conn.working.processed_prs \cup
            {[pr_number |-> pr_number, status |-> "completed"]}))

\* INSERT INTO processed_prs, then conn.commit().
MarkPrProcessed(store, pr_number) ==
    LET conn == Connect(store) IN
    Close(Commit(Execute(conn, "processed_prs",
        conn.working.processed_prs \cup
            {[pr_number |-> pr_number, status |-> "completed"]})))

\* Variant: an add_review_history that leaves out conn.commit().
AddReviewHistoryUncommitted(store, pr_number, feedback) ==
    LET conn == Connect(store)
        rows == conn.working.review_history IN
    Close(Execute(conn, "review_history",
        Append(rows, [id |-> Len(rows) + 1, pr_number |-> pr_number,
                      feedback |-> feedback, status |-> "completed"])))

\* INSERT INTO review_history, then conn.commit().
AddReviewHistory(store, pr_number, feedback) ==
    LET conn == Connect(store)
        rows == conn.working.review_history IN
    Close(Commit(Execute(conn, "review_history",
        Append(rows, [id |-> Len(rows) + 1, pr_number |-> pr_number,
                      feedback |-> feedback, status |-> "completed"]))))

\* INSERT without commit; returns cursor.lastrowid.
StartPrProcessing(store, pr_number) ==
    LET conn == Connect(store)
        rows == conn.working.pr_metrics
        done == Execute(conn, "pr_metrics",
                    Append(rows, [id |-> Len(rows) + 1, pr_number |-> pr_number,
                                  status |-> "processing", diff_size |-> 0,
                                  error_message |-> ""])) IN
    [store |-> Close(done), lastrowid |-> Len(done.working.pr_metrics)]

\* SELECT the row; return when it is not there; else UPDATE without commit.
EndPrProcessing(store, metric_id, status, diff_size, error_message) ==
    LET conn == Connect(store)
        rows == conn.working.pr_metrics
        found == \E i \in 1..Len(rows) : rows[i].id = metric_id IN
    IF ~found THEN Close(conn)
    ELSE Close(Execute(conn, "pr_metrics",
            [i \in 1..Len(rows) |->
                IF rows[i].id = metric_id
                THEN [rows[i] EXCEPT !.status = status, !.diff_size = diff_size,
                                     !.error_message = error_message]
                ELSE rows[i]]))

RecordLlmMetrics(store, pr_number, error_message) ==
    LET conn == Connect(store)
        rows == conn.working.llm_metrics IN
    Close(Execute(conn, "llm_metrics",
        Append(rows, [id |-> Len(rows) + 1, pr_number |-> pr_number,
                      error_message |-> error_message])))

CountStatus(rows, wanted) ==
    Cardinality({i \in 1..Len(rows) : (rows[i].status = "completed") = wanted})

\* INSERT OR REPLACE of today's rollup row, without commit.
UpdateDailyMetrics(store) ==
    LET conn == Connect(store)
        rows == conn.working.pr_metrics IN
    Close(Execute(conn, "daily_metrics",
        <<[prs_processed |-> Len(rows),
           successful_reviews |-> CountStatus(rows, TRUE),
           failed_reviews |-> CountStatus(rows, FALSE),
           llm_rows |-> Len(conn.working.llm_metrics)]>>))

\* ------------------------------------------------------------ state
VARIABLES
    db,             \* the sqlite file data/pr_tracker.db
    comments,       \* comments[n]: review comments GitHub holds for PR n
    pr_queue,       \* self.pr_queue
    dpc, prs, at,   \* main loop: position, the listing, the index of `for pr in prs`
    wpc,            \* worker thread position
    pr,             \* process_pull_request: pr_number
    current_pr_number,  \* self.current_pr_number (0: not set)
    metric_id,      \* process_pull_request: metric_id (0: not yet bound)
    diff, review,   \* process_pull_request: diff, review
    exc,            \* the exception in flight (its text)
    events,         \* history: what the current iteration has done so far
    snap,           \* history: what was processed and ended when the cycle listed
    faults          \* history: crashes and failed writes of the processed-set so far

\* analyze_diff and process_diff_content, each studied on its own
VARIABLES
    a_diff,         \* analyze_diff: diff
    ci,             \* analyze_diff: the index of `for chunk in file_chunks`
    all_analyses,   \* analyze_diff: all_analyses
    final_analysis, \* analyze_diff: final_analysis
    apc,            \* analyze_diff: position
    llm_calls,      \* history: the calls of self.llm so far
    recorded,       \* history: the arguments of record_llm_metrics, once called
    raw_diff,       \* process_diff_content: diff
    normalized,     \* what process_diff_content returned for raw_diff
    renormalized,   \* what it returned when given that text once more
    npc,            \* process_diff_content: position
    now,            \* run: the wall clock, in ticks of half a minute
    started,        \* history: the clock when run was entered
    check_interval, \* Config.CHECK_INTERVAL in ticks (0: the clock is not studied)
    triggers        \* history: triggers[h], the calls of update_daily_metrics in hour h

analysisVars == <<a_diff, ci, all_analyses, final_analysis, apc, llm_calls, recorded>>
normalizerVars == <<raw_diff, normalized, renormalized, npc>>
clockVars == <<now, started, check_interval, triggers>>
funcVars == <<analysisVars, normalizerVars, clockVars>>

workerVars == <<wpc, pr, current_pr_number, metric_id, diff, review, exc, events>>
discVars == <<dpc, prs, at, snap>>
vars == <<db, comments, pr_queue, dpc, prs, at, wpc, pr, current_pr_number,
          metric_id, diff, review,
          exc, events, snap, faults, funcVars>>

ProcessedSet(store) == {row.pr_number : row \in store.processed_prs}

NoSnap == [processed |-> {}, terminal |-> {}]

Event(op, status, error) == [op |-> op, status |-> status, error |-> error]

\* analyze_diff is not being run
AnalysisIdle ==
    /\ a_diff = <<>>
    /\ ci = 1
    /\ all_analyses = <<>>
    /\ final_analysis = <<>>
    /\ apc = "idle"
    /\ llm_calls = <<>>
    /\ recorded = <<>>

\* process_diff_content is not being run
NormalizerIdle ==
    /\ raw_diff = <<>>
    /\ normalized = <<>>
    /\ renormalized = <<>>
    /\ npc = "idle"

\* the service as constructed: empty store, empty queue, both loops at their top
ServiceInit ==
    /\ db = EmptyStore
    /\ comments = [n \in PRs |-> 0]
    /\ pr_queue = <<>>
    /\ dpc = "list"
    /\ prs = <<>>
    /\ at = 1
    /\ wpc = [w \in Workers |-> "get"]
    /\ pr = [w \in Workers |-> 0]
    /\ current_pr_number = 0
    /\ metric_id = [w \in Workers |-> 0]
    /\ diff = [w \in Workers |-> NoDiff]
    /\ review = [w \in Workers |-> ""]
    /\ exc = [w \in Workers |-> ""]
    /\ events = [w \in Workers |-> <<>>]
    /\ snap = NoSnap
    /\ faults = 0

\* the hours of the wall clock that are looked at
Hours == 0..(MaxHours - 1)

\* run is not being timed
ClockIdle ==
    /\ now = 0
    /\ started = 0
    /\ check_interval = 0
    /\ triggers = [h \in Hours |-> 0]

Init == ServiceInit /\ AnalysisIdle /\ NormalizerIdle /\ ClockIdle

\* ------------------------------------------------------------ discovery
\* get_pull_requests: the open pull requests, newest first; [] when the
\* request fails.
RECURSIVE Listing(_)
Listing(S) ==
    IF S = {} THEN <<>>
    ELSE LET top == CHOOSE n \in S : \A m \in S : m <= n
         IN <<top>> \o Listing(S \ {top})

GetPullRequests == {Listing(S) : S \in SUBSET PRs}

\* Variant: a check_new_prs that queues every listed pull request.
ShouldEnqueueAlways(store, pr_number) == TRUE

\* Variant: a check_new_prs that queues nothing.
ShouldEnqueueNever(store, pr_number) == FALSE

\* check_new_prs: `if not self.db.is_pr_processed(pr['number'])`
ShouldEnqueue(store, pr_number) == ~IsPrProcessed(store, pr_number)

\* Queue.put: blocks while maxsize > 0 and the queue is full.
PutBlocks(queue) == QueueMaxsize > 0 /\ Len(queue) >= QueueMaxsize

\* The PRs whose iteration has ended with its metric closed.
Finished(w) ==
    /\ wpc[w] = "get"
    /\ events[w] # <<>>
    /\ events[w][Len(events[w])].op = "end_pr_processing"

Ended == {pr[w] : w \in {v \in Workers : Finished(v)}}

\* prs = self.github.get_pull_requests()
DiscList ==
    /\ dpc = "list"
    /\ UNCHANGED funcVars
    /\ \E listing \in GetPullRequests : prs' = listing
    /\ at' = 1
    /\ dpc' = "iter"
    /\ snap' = [processed |-> ProcessedSet(db), terminal |-> Ended]
    /\ UNCHANGED <<db, comments, pr_queue, workerVars, faults>>

\* One turn of `for pr in prs` up to the put; a failing is_pr_processed
\* leaves check_new_prs and is caught by run's handler, which sleeps.
DiscCheck ==
    /\ dpc = "iter"
    /\ UNCHANGED funcVars
    /\ at <= Len(prs)
    /\ \E raises \in BOOLEAN :
        IF raises THEN dpc' = "list" /\ prs' = <<>> /\ at' = 1 /\ snap' = NoSnap
        ELSE IF ShouldEnqueue(db, prs[at]) THEN dpc' = "put" /\ UNCHANGED <<prs, at, snap>>
        ELSE dpc' = "iter" /\ at' = at + 1 /\ UNCHANGED <<prs, snap>>
    /\ UNCHANGED <<db, comments, pr_queue, workerVars, faults>>

\* self.pr_queue.put(pr)
DiscPut ==
    /\ dpc = "put"
    /\ UNCHANGED funcVars
    /\ ~PutBlocks(pr_queue)
    /\ Len(pr_queue) < MaxQueue
    /\ pr_queue' = Append(pr_queue, prs[at])
    /\ at' = at + 1
    /\ dpc' = "iter"
    /\ UNCHANGED <<db, comments, prs, workerVars, snap, faults>>

\* After check_new_prs: the rollup on the hour, then sleep(CHECK_INTERVAL).
DiscCycleEnd ==
    /\ dpc = "iter"
    /\ UNCHANGED funcVars
    /\ at > Len(prs)
    /\ \E minute \in Minutes :
        db' = IF minute = 0 THEN UpdateDailyMetrics(db) ELSE db
    /\ dpc' = "list"
    /\ prs' = <<>>
    /\ at' = 1
    /\ snap' = NoSnap
    /\ UNCHANGED <<comments, pr_queue, workerVars, faults>>

\* ------------------------------------------------------------ worker
Log(w, new) == events' = [events EXCEPT ![w] = @ \o new]

Goto(w, label) == wpc' = [wpc EXCEPT ![w] = label]

\* except Exception as e: control moves to the handler at the end of
\* process_pull_request with e in flight.
Raise(w, text, new) ==
    /\ exc' = [exc EXCEPT ![w] = text]
    /\ Goto(w, "except")
    /\ Log(w, new \o <<Event("raise", "", text)>>)
    /\ UNCHANGED <<db, metric_id, diff, review>>

\* The frame of process_pull_request is gone once it returns or is left.
Return(w) ==
    /\ metric_id' = [metric_id EXCEPT ![w] = 0]
    /\ diff' = [diff EXCEPT ![w] = NoDiff]
    /\ review' = [review EXCEPT ![w] = ""]

\* end_pr_processing(...), the return to process_queue, and task_done()
EndIteration(w, status, diff_size, error_message, new) ==
    /\ db' = EndPrProcessing(db, metric_id[w], status, diff_size, error_message)
    /\ Log(w, new \o <<Event("end_pr_processing", status, error_message)>>)
    /\ Goto(w, "get")
    /\ Return(w)
    /\ exc' = [exc EXCEPT ![w] = ""]

\* pr = self.pr_queue.get(timeout=1); process_pull_request(pr): logging, then
\* pr_number = pr['number']. (An empty queue raises Empty and the loop tries
\* again.)
WGet(w) ==
    /\ wpc[w] = "get"
    /\ UNCHANGED funcVars
    /\ pr_queue # <<>>
    /\ pr' = [pr EXCEPT ![w] = Head(pr_queue)]
    /\ pr_queue' = Tail(pr_queue)
    /\ Goto(w, "start")
    /\ events' = [events EXCEPT ![w] = <<>>]
    /\ UNCHANGED <<db, comments, discVars, current_pr_number, metric_id, diff,
                   review, exc, faults>>

\* pr_number = pr['number']; self.current_pr_number = pr_number;
\* metric_id = self.metrics.start_pr_processing(pr_number)
WStart(w) ==
    /\ wpc[w] = "start"
    /\ UNCHANGED funcVars
    /\ \E raises \in BOOLEAN :
        IF raises
        THEN Raise(w, ErrorText("start_pr_processing"), <<>>)
        ELSE LET r == StartPrProcessing(db, pr[w]) IN
             /\ db' = r.store
             /\ metric_id' = [metric_id EXCEPT ![w] = r.lastrowid]
             /\ Goto(w, "check")
             /\ Log(w, <<Event("start_pr_processing", "processing", "")>>)
             /\ UNCHANGED <<diff, review, exc>>
    /\ current_pr_number' = pr[w]
    /\ UNCHANGED <<comments, pr_queue, discVars, pr, faults>>

\* Variant: a process_pull_request without its skip.
AlreadyProcessedNever(store, pr_number) == FALSE

\* process_pull_request: `if self.db.is_pr_processed(pr_number)`
AlreadyProcessed(store, pr_number) == IsPrProcessed(store, pr_number)

\* Variant: a skip that would close the metric as completed.
SkipStatusCompleted == "completed"

\* process_pull_request: end_pr_processing(metric_id, 'skipped')
SkipStatus == "skipped"

\* if self.db.is_pr_processed(pr_number): end 'skipped' and return
WCheck(w) ==
    /\ wpc[w] = "check"
    /\ UNCHANGED funcVars
    /\ \E raises \in BOOLEAN :
        IF raises
        THEN Raise(w, ErrorText("is_pr_processed"), <<>>)
        ELSE IF AlreadyProcessed(db, pr[w])
        THEN EndIteration(w, SkipStatus, 0, "", <<Event("is_pr_processed", "yes", "")>>)
        ELSE /\ Goto(w, "diff")
             /\ Log(w, <<Event("is_pr_processed", "no", "")>>)
             /\ UNCHANGED <<db, metric_id, diff, review, exc>>
    /\ UNCHANGED <<comments, pr_queue, discVars, pr, current_pr_number, faults>>

\* diff = self.get_pr_diff(pr_number); if not diff: end 'failed' and return.
\* get_pr_diff returns None on a GitCommandError, "" when every file of the
\* diff is skipped, and lets any other exception through.
GetPrDiffResults == Diffs \cup {NoDiff, None}

WDiff(w) ==
    /\ wpc[w] = "diff"
    /\ UNCHANGED funcVars
    /\ \E got \in GetPrDiffResults, raises \in BOOLEAN :
        IF raises
        THEN Raise(w, ErrorText("get_pr_diff"), <<>>)
        ELSE IF got = None
        THEN EndIteration(w, "failed", 0, FailedToGetDiff,
                 <<Event("get_pr_diff", "none", "")>>)
        ELSE IF got = NoDiff
        THEN EndIteration(w, "failed", 0, FailedToGetDiff,
                 <<Event("get_pr_diff", "empty", "")>>)
        ELSE /\ diff' = [diff EXCEPT ![w] = got]
             /\ Goto(w, "analyze")
             /\ Log(w, <<Event("get_pr_diff", "ok", "")>>)
             /\ UNCHANGED <<db, metric_id, review, exc>>
    /\ UNCHANGED <<comments, pr_queue, discVars, pr, current_pr_number, faults>>

\* review = self.analyze_diff(diff). Inside analyze_diff every inference
\* failure is caught; what its try block lets out reaches its own handler,
\* whose call reads input_tokens, a name bound nowhere: the NameError is what
\* leaves analyze_diff.
WAnalyze(w) ==
    /\ wpc[w] = "analyze"
    /\ UNCHANGED funcVars
    /\ \E raises \in BOOLEAN :
        IF raises
        THEN Raise(w, NameErrorText, <<Event("raise", "", ErrorText("analyze_diff"))>>)
        ELSE /\ db' = RecordLlmMetrics(db, current_pr_number, "")
             /\ review' = [review EXCEPT ![w] = ReviewText]
             /\ Goto(w, "post")
             /\ Log(w, <<Event("analyze_diff", "ok", "")>>)
             /\ UNCHANGED <<metric_id, diff, exc>>
    /\ UNCHANGED <<comments, pr_queue, discVars, pr, current_pr_number, faults>>

\* submit_review_comment: True when GitHub took the comment, False on a
\* RequestException; anything else propagates.
SubmitOutcomes == {"true", "false", "raise"}

\* Variant: a process_pull_request that goes on whatever the post returned.
PostSucceededAlways(outcome) == TRUE

\* process_pull_request: `if self.github.submit_review_comment(...)`
PostSucceeded(outcome) == outcome = "true"

\* if self.github.submit_review_comment(pr_number, review): ... else: end 'failed'
WPost(w) ==
    /\ wpc[w] = "post"
    /\ UNCHANGED funcVars
    /\ \E outcome \in SubmitOutcomes :
        /\ comments' = IF outcome = "true"
                       THEN [comments EXCEPT ![pr[w]] = @ + 1] ELSE comments
        /\ IF outcome = "raise"
           THEN Raise(w, ErrorText("submit_review_comment"), <<>>)
           ELSE IF PostSucceeded(outcome)
           THEN /\ Goto(w, "mark")
                /\ Log(w, <<Event("submit_review_comment", outcome, "")>>)
                /\ UNCHANGED <<db, metric_id, diff, review, exc>>
           ELSE EndIteration(w, "failed", Len(diff[w]), FailedToSubmitReview,
                    <<Event("submit_review_comment", outcome, "")>>)
    /\ UNCHANGED <<pr_queue, discVars, pr, current_pr_number, faults>>

\* self.db.mark_pr_processed(pr_number): the INSERT fails on a pr_number that
\* is already a row (PRIMARY KEY) and when the store cannot be written.
WMark(w) ==
    /\ wpc[w] = "mark"
    /\ UNCHANGED funcVars
    /\ \E storeFails \in BOOLEAN :
        /\ storeFails => faults < MaxFaults
        /\ IF storeFails \/ IsPrProcessed(db, pr[w])
           THEN /\ Raise(w, ErrorText("mark_pr_processed"), <<>>)
                /\ faults' = IF storeFails THEN faults + 1 ELSE faults
           ELSE /\ db' = MarkPrProcessed(db, pr[w])
                /\ Goto(w, "history")
                /\ Log(w, <<Event("mark_pr_processed", "completed", "")>>)
                /\ UNCHANGED <<metric_id, diff, review, exc, faults>>
    /\ UNCHANGED <<comments, pr_queue, discVars, pr, current_pr_number>>

\* self.db.add_review_history(pr_number, review)
WHistory(w) ==
    /\ wpc[w] = "history"
    /\ UNCHANGED funcVars
    /\ \E raises \in BOOLEAN :
        IF raises
        THEN Raise(w, ErrorText("add_review_history"), <<>>)
        ELSE /\ db' = AddReviewHistory(db, pr[w], review[w])
             /\ Goto(w, "close")
             /\ Log(w, <<Event("add_review_history", "completed", "")>>)
             /\ UNCHANGED <<metric_id, diff, review, exc>>
    /\ UNCHANGED <<comments, pr_queue, discVars, pr, current_pr_number, faults>>

\* self.metrics.end_pr_processing(metric_id, 'completed', diff_size=diff_size)
WClose(w) ==
    /\ wpc[w] = "close"
    /\ UNCHANGED funcVars
    /\ EndIteration(w, "completed", Len(diff[w]), "", <<>>)
    /\ UNCHANGED <<comments, pr_queue, discVars, pr, current_pr_number, faults>>

\* except Exception as e: self.metrics.end_pr_processing(metric_id, 'failed',
\* error_message=str(e)). With metric_id not yet bound the handler itself
\* raises, and the exception leaves process_pull_request.
WExcept(w) ==
    /\ wpc[w] = "except"
    /\ UNCHANGED funcVars
    /\ IF metric_id[w] = 0
       THEN /\ exc' = [exc EXCEPT ![w] = UnboundLocalErrorText]
            /\ Goto(w, "escaped")
            /\ Log(w, <<Event("raise", "", UnboundLocalErrorText)>>)
            /\ Return(w)
            /\ UNCHANGED db
       ELSE EndIteration(w, "failed", 0, exc[w], <<>>)
    /\ UNCHANGED <<comments, pr_queue, discVars, pr, current_pr_number, faults>>

\* Variant: a process_queue whose handler would leave the loop.
AfterEscapeStop == "stopped"

\* process_queue: except Exception as e: log, time.sleep(1), loop again.
AfterEscape == "get"

WEscaped(w) ==
    /\ wpc[w] = "escaped"
    /\ UNCHANGED funcVars
    /\ Goto(w, AfterEscape)
    /\ exc' = [exc EXCEPT ![w] = ""]
    /\ UNCHANGED <<db, comments, pr_queue, discVars, pr, current_pr_number,
                   metric_id, diff, review, events, faults>>

WorkerStep(w) ==
    \/ WGet(w) \/ WStart(w) \/ WCheck(w) \/ WDiff(w) \/ WAnalyze(w) \/ WPost(w)
    \/ WMark(w) \/ WHistory(w) \/ WClose(w) \/ WExcept(w) \/ WEscaped(w)

\* ------------------------------------------------------------ process crash
\* The process dies and is started again: the queue and both loops start
\* over, the store and GitHub keep what they hold.
Busy(w) == wpc[w] \notin {"get", "escaped", "stopped"}

Crash ==
    /\ faults < MaxFaults
    /\ UNCHANGED funcVars
    /\ faults' = faults + 1
    /\ pr_queue' = <<>>
    /\ dpc' = "list"
    /\ prs' = <<>>
    /\ at' = 1
    /\ snap' = NoSnap
    /\ wpc' = [w \in Workers |-> "get"]
    /\ metric_id' = [w \in Workers |-> 0]
    /\ diff' = [w \in Workers |-> NoDiff]
    /\ review' = [w \in Workers |-> ""]
    /\ exc' = [w \in Workers |-> ""]
    /\ current_pr_number' = 0
    /\ events' = [w \in Workers |->
            IF Busy(w) THEN events[w] \o <<Event("crash", "", "")>> ELSE events[w]]
    /\ UNCHANGED <<db, comments, pr>>

\* ------------------------------------------------------------ specification
Next ==
    \/ DiscList \/ DiscCheck \/ DiscPut \/ DiscCycleEnd
    \/ \E w \in Workers : WorkerStep(w)
    \/ Crash

Spec == Init /\ [][Next]_vars

\* The worker is a running thread: a step it can take, it takes.
FairSpec == Spec /\ \A w \in Workers : WF_vars(WorkerStep(w))

\* ------------------------------------------------------------ reading the history
HasEvent(w, op, status) ==
    \E i \in 1..Len(events[w]) : events[w][i].op = op /\ events[w][i].status = status

Raised(w) == \E i \in 1..Len(events[w]) : events[w][i].op = "raise"

\* the text of the exception the iteration raised first
FirstRaised(w) ==
    LET i == CHOOSE j \in 1..Len(events[w]) :
                 /\ events[w][j].op = "raise"
                 /\ \A k \in 1..(j - 1) : events[w][k].op # "raise"
    IN events[w][i].error

LastEvent(w) == events[w][Len(events[w])]

\* the iteration of w has ended, one way or another
Over(w) == events[w] # <<>> /\ wpc[w] \in {"get", "escaped"}

EndedAs(w, status) == Finished(w) /\ LastEvent(w).status = status

PostedOk(w) == HasEvent(w, "submit_review_comment", "true")

MetricRows(store, pr_number) ==
    Cardinality({i \in 1..Len(store.pr_metrics) :
                    store.pr_metrics[i].pr_number = pr_number})

HistoryRows(store, pr_number) ==
    Cardinality({i \in 1..Len(store.review_history) :
                    store.review_history[i].pr_number = pr_number})

Enqueues == dpc = "put" /\ dpc' = "iter" /\ pr_queue' = Append(pr_queue, prs[at])

\* ------------------------------------------------------------ claims
\* C1: with no process crash and every write of the processed-set succeeding,
\* no pull request gets more than one review comment, however often it was
\* queued and however discovery and the worker interleave.
PostedAtMostOnce == faults = 0 => \A n \in PRs : comments[n] <= 1

\* C1 witness: a PR that was queued twice: commented once, dequeued again, skipped.
PostedOnceThenSkipped ==
    /\ faults = 0
    /\ \E w \in Workers : EndedAs(w, "skipped") /\ comments[pr[w]] = 1

\* C2 as claimed: at the moment check_new_prs puts an id on the queue, the id
\* is not in the processed-set.
NeverEnqueuesProcessed ==
    [][Enqueues => ~IsPrProcessed(db, prs[at])]_vars

\* C2 amended: check_new_prs goes on to the put only for an id that is not in
\* the processed-set at the moment it checks it.
EnqueuesOnlyUnprocessedAtCheck ==
    [][(dpc = "iter" /\ dpc' = "put") => ~IsPrProcessed(db, prs[at])]_vars

\* C2 witness: between the check and the put the worker has marked the id.
MarkedBetweenCheckAndPut == dpc = "put" /\ IsPrProcessed(db, prs[at])

PostMarkHistoryClose ==
    \A w \in Workers :
        LET e == events[w] IN
        /\ EndedAs(w, "completed") =>
              /\ Len(e) >= 4
              /\ e[Len(e) - 3] = Event("submit_review_comment", "true", "")
              /\ e[Len(e) - 2].op = "mark_pr_processed"
              /\ e[Len(e) - 1].op = "add_review_history"
              /\ IsPrProcessed(db, pr[w])
              /\ HistoryRows(db, pr[w]) >= 1
              /\ comments[pr[w]] >= 1
        /\ \A i \in 1..Len(e) :
              (\/ e[i].op \in {"mark_pr_processed", "add_review_history"}
               \/ e[i] = Event("end_pr_processing", "completed", ""))
                  => \E j \in 1..(i - 1) : e[j] = Event("submit_review_comment", "true", "")

\* C4 witness: an iteration has ended completed.
IterationCompleted == \E w \in Workers : EndedAs(w, "completed")

\* C5: an iteration that found its PR unprocessed and has not had its post
\* succeed leaves the PR out of the processed-set, whether it goes on, fails
\* or dies with the process; and a discovery cycle that comes to a listed PR
\* that is not in the processed-set queues it (it never passes it over).
StoppedBeforePostIsRequeued ==
    /\ [](\A w \in Workers :
            (HasEvent(w, "is_pr_processed", "no") /\ ~PostedOk(w))
                => ~IsPrProcessed(db, pr[w]))
    /\ [][(dpc = "iter" /\ at <= Len(prs) /\ ~IsPrProcessed(db, prs[at]))
            => (dpc' \in {"put", "list"} \/ UNCHANGED <<dpc, at>>)]_vars
    /\ [][(dpc = "put" /\ dpc' = "iter") => pr_queue' = Append(pr_queue, prs[at])]_vars

\* C5 witness: an iteration failed before its post; a cycle that listed
\* afterwards is about to queue the same PR again.
FailedThenAboutToRequeue ==
    \E w \in Workers :
        /\ EndedAs(w, "failed")
        /\ HasEvent(w, "is_pr_processed", "no")
        /\ ~PostedOk(w)
        /\ dpc = "put"
        /\ prs[at] = pr[w]
        /\ pr[w] \in snap.terminal

\* C6 as claimed: an iteration in which an exception was raised ends with
\* end_pr_processing(metric_id, 'failed', <that exception's text>).
RaisedEndsClosedFailed ==
    \A w \in Workers :
        (Over(w) /\ Raised(w) /\ ~HasEvent(w, "crash", ""))
            => LastEvent(w) = Event("end_pr_processing", "failed", FirstRaised(w))

\* C7: after an exception, also one that leaves process_pull_request, the
\* worker is back at the dequeue, and takes the next queued item.
WorkerSurvivesFailure ==
    \A w \in Workers :
        /\ [](wpc[w] \in {"except", "escaped"} => <>(wpc[w] = "get"))
        /\ []((wpc[w] \in {"except", "escaped"} /\ pr_queue # <<>>)
                => <>(wpc[w] = "start" \/ pr_queue = <<>>))

\* C7 witness: an exception has left process_pull_request while an item waits.
EscapedWithItemQueued ==
    \E w \in Workers : wpc[w] = "escaped" /\ pr_queue # <<>>

\* C8 as claimed: a cycle never queues a PR whose iteration had ended
\* (completed, failed or skipped) when the cycle listed.
NeverRequeuedOnceTerminal ==
    [][Enqueues => prs[at] \notin snap.terminal]_vars

\* C8 amended: an iteration that ends completed or skipped leaves its PR in
\* the processed-set, and a cycle never queues a PR that was in the
\* processed-set when the cycle listed.
NeverRequeuedOnceProcessed ==
    /\ [](\A w \in Workers :
            (EndedAs(w, "completed") \/ EndedAs(w, "skipped"))
                => IsPrProcessed(db, pr[w]))
    /\ [][Enqueues => prs[at] \notin snap.processed]_vars

\* C8 witness: a cycle that listed a processed PR has passed it over.
ProcessedPassedOver ==
    /\ dpc = "iter"
    /\ \E i \in 1..Len(prs) : i < at /\ prs[i] \in snap.processed

\* C9 as claimed: the queue's length stays within a fixed capacity. Nothing
\* but the exploration's own MaxQueue stops the puts here, so a queue with a
\* capacity is one that stays below MaxQueue.
QueueStaysBelowCapacity == Len(pr_queue) < MaxQueue

\* C10: at most one iteration is under way at any time, and so at most one
\* analysis (the inference calls), while discovery runs beside the worker.
AtMostOneProcessing ==
    /\ Cardinality({w \in Workers : Busy(w)}) <= 1
    /\ Cardinality({w \in Workers : wpc[w] = "analyze"}) <= 1

\* C10 witness: an analysis is under way while discovery is about to put.
AnalyzingWhileDiscovering ==
    \E w \in Workers : wpc[w] = "analyze" /\ dpc = "put"

\* C11 as claimed: from start_pr_processing until the iteration completes,
\* the store holds the iteration's metric row with status 'processing'.
MetricRowIsDurable ==
    \A w \in Workers :
        (Busy(w) /\ HasEvent(w, "start_pr_processing", "processing"))
            => \E i \in 1..Len(db.pr_metrics) :
                  /\ db.pr_metrics[i].id = metric_id[w]
                  /\ db.pr_metrics[i].pr_number = pr[w]
                  /\ db.pr_metrics[i].status = "processing"

\* the add_review_history calls of w's iteration that returned
HistoryAdds(w) ==
    Cardinality({i \in 1..Len(events[w]) : events[w][i].op = "add_review_history"})

IsPrefix(s, t) == Len(s) <= Len(t) /\ SubSeq(t, 1, Len(s)) = s

Atom(s, n, k) == [s |-> s, n |-> n, k |-> k]

NL == Atom("\n", 0, 0)
Space == Atom(" ", 0, 0)
EscapedNL == Atom("\\n", 1, 0)
FileTag == Atom("File: ", 1, 0)
ChangesMarker == Atom("@@@ Changes @@@", 3, 0)

FileSeparator == <<NL, FileTag>>
BlockSeparator == <<ChangesMarker>>

IsWhite(atom) == atom.s \in {"\n", " ", "\t"}

EndsWhite(atom) == IsWhite(atom) \/ atom.s \in {"File: ", "index ", "@@ "}

\* len(text.split()): an atom that follows one not ending in white space
\* goes on with that atom's last word.
RECURSIVE WordsFrom(_, _)
WordsFrom(text, glued) ==
    IF text = <<>> THEN 0
    ELSE LET atom == Head(text) IN
         (IF atom.n = 0 THEN 0 ELSE IF glued THEN atom.n - 1 ELSE atom.n)
            + WordsFrom(Tail(text), ~EndsWhite(atom))

Words(text) == WordsFrom(text, FALSE)

\* text.strip()
RECURSIVE Strip(_)
Strip(text) ==
    IF text = <<>> THEN <<>>
    ELSE IF IsWhite(Head(text)) THEN Strip(Tail(text))
    ELSE IF IsWhite(text[Len(text)]) THEN Strip(SubSeq(text, 1, Len(text) - 1))
    ELSE text

StartsWith(text, prefix) ==
    Len(prefix) <= Len(text) /\ SubSeq(text, 1, Len(prefix)) = prefix

\* text.split(sep): the pieces between the occurrences of sep, left to right
RECURSIVE SplitFrom(_, _, _)
SplitFrom(text, sep, piece) ==
    IF text = <<>> THEN <<piece>>
    ELSE IF StartsWith(text, sep)
    THEN <<piece>> \o SplitFrom(SubSeq(text, Len(sep) + 1, Len(text)), sep, <<>>)
    ELSE SplitFrom(Tail(text), sep, Append(piece, Head(text)))

Split(text, sep) == SplitFrom(text, sep, <<>>)

\* sep.join(pieces)
RECURSIVE Join(_, _)
Join(pieces, sep) ==
    IF pieces = <<>> THEN <<>>
    ELSE IF Len(pieces) = 1 THEN pieces[1]
    ELSE pieces[1] \o sep \o Join(Tail(pieces), sep)

\* text is in whole, as it reads, somewhere in whole
Contains(whole, text) ==
    \E i \in 0..(Len(whole) - Len(text)) : SubSeq(whole, i + 1, i + Len(text)) = text

\* ------------------------------------------------------------ analyze_diff
MaxFiles == 2

\* `if chunk_tokens > 3000`, `if current_tokens + block_tokens > 3000`
TokenCeiling == 3000

\* The files of a normalized diff given to analyze_diff: for each file the
\* word counts of its change blocks, one after the other.
FileShapes ==
    {<<1>>, <<1, 1>>, <<3001>>, <<1499, 1499, 1>>}

RECURSIVE BlocksText(_, _, _)
BlocksText(f, shape, b) ==
    IF b > Len(shape) THEN <<>>
    ELSE <<NL, ChangesMarker, NL, Atom("lines", shape[b], 10 * f + b)>>
            \o BlocksText(f, shape, b + 1)

\* "File: <path>" and then, for each hunk, the marker line and its lines
FileText(f, shape) == <<FileTag, Atom("path", 1, f)>> \o BlocksText(f, shape, 1)

DiffOf(shapes) == Join([f \in 1..Len(shapes) |-> FileText(f, shapes[f])], <<NL>>)

InputDiffs ==
    {DiffOf(shapes) : shapes \in UNION {[1..n -> FileShapes] : n \in 0..MaxFiles}}

\* file_chunks = diff.split('\nFile: ')
FileChunks(text) == Split(text, FileSeparator)

\* Variant: a packing that drops the block that did not fit.
StartNextGroupEmpty(block) == <<>>

\* analyze_large_chunk: current_block = [block]
StartNextGroup(block) == <<block>>

\* analyze_large_chunk: the loop over change_blocks and what follows it; sent
\* is the sequence of the texts handed to analyze_single_chunk.
RECURSIVE Pack(_, _, _, _, _)
Pack(change_blocks, i, current_block, current_tokens, sent) ==
    LET flushed == IF current_block # <<>>
                   THEN Append(sent, Join(current_block, BlockSeparator))
                   ELSE sent IN
    IF i > Len(change_blocks) THEN flushed
    ELSE LET block == change_blocks[i]
             block_tokens == Words(block) IN
         IF current_tokens + block_tokens > TokenCeiling
         THEN Pack(change_blocks, i + 1, StartNextGroup(block), block_tokens, flushed)
         ELSE Pack(change_blocks, i + 1, Append(current_block, block),
                   current_tokens + block_tokens, sent)

AnalyzeLargeChunk(chunk) == Pack(Split(chunk, BlockSeparator), 1, <<>>, 0, <<>>)

\* analyze_diff, one turn of `for chunk in file_chunks`: the texts that go to
\* analyze_single_chunk, in order.
Sends(chunk) ==
    IF Strip(chunk) = <<>> THEN <<>>
    ELSE IF Words(chunk) > TokenCeiling THEN AnalyzeLargeChunk(chunk)
    ELSE <<chunk>>

\* What a call of self.llm does: it answers with a finding (a list of two
\* lines), or with white space only, or it raises.
LlmOutcomes == {"finding", "blank", "raise"}

ResponseText(outcome, k) ==
    IF outcome = "finding"
    THEN <<NL, Atom("issue", 1, k), NL, Atom("fix", 1, k), NL>>
    ELSE <<NL>>

\* Variant: an analyze_single_chunk without its try/except.
SingleChunkCatchesNothing(outcome) == FALSE

\* analyze_single_chunk: `except Exception as e:` logs and returns None
SingleChunkCatches(outcome) == outcome = "raise"

\* analyze_single_chunk: response['choices'][0]['text'].strip(), or None;
\* None and '' are both <<>> here, `if analysis:` treats them alike.
AnalyzeSingleChunk(outcome, k) ==
    IF outcome = "raise" THEN <<>> ELSE Strip(ResponseText(outcome, k))

IsFinding(call) == call.got # <<>>

Finding(call) == call.got

RECURSIVE MapFinding(_)
MapFinding(calls) ==
    IF calls = <<>> THEN <<>> ELSE <<Finding(Head(calls))>> \o MapFinding(Tail(calls))

serviceVars == <<db, comments, pr_queue, discVars, workerVars, faults>>

\* One turn of `for chunk in file_chunks`, the calls of analyze_single_chunk
\* it makes included. A failure that analyze_single_chunk did not catch would
\* end the loop at that call and reach analyze_diff's handler.
AnalyzeChunk ==
    /\ apc = "chunks"
    /\ ci <= Len(FileChunks(a_diff))
    /\ LET sends == Sends(FileChunks(a_diff)[ci]) IN
       \E outs \in [1..Len(sends) -> LlmOutcomes] :
          LET base == Len(llm_calls)
              made == [j \in 1..Len(sends) |->
                         [kind |-> "chunk", ci |-> ci, text |-> sends[j],
                          outcome |-> outs[j],
                          got |-> AnalyzeSingleChunk(outs[j], base + j)]]
              escaping == {j \in 1..Len(sends) :
                              outs[j] = "raise" /\ ~SingleChunkCatches(outs[j])} IN
          IF escaping # {}
          THEN LET first == CHOOSE j \in escaping : \A i \in escaping : j <= i IN
               /\ llm_calls' = llm_calls \o SubSeq(made, 1, first)
               /\ apc' = "raised"
               /\ UNCHANGED <<ci, all_analyses>>
          ELSE /\ llm_calls' = llm_calls \o made
               /\ all_analyses' = all_analyses \o MapFinding(SelectSeq(made, IsFinding))
               /\ ci' = ci + 1
               /\ apc' = "chunks"
    /\ UNCHANGED <<a_diff, final_analysis, recorded, serviceVars, normalizerVars, clockVars>>

NoIssuesText ==
    <<Atom("No significant database-related issues found in the changes.", 8, 0)>>

FallbackSeparator == <<NL, NL, Atom("=====", 1, 0), NL, NL>>

\* Variant: a fallback that keeps the first finding only.
FallbackFirstOnly(analyses) == analyses[1]

\* combine_analyses, `except Exception`: "\n\n=====\n\n".join(analyses)
Fallback(analyses) == Join(analyses, FallbackSeparator)

\* str() of a set that holds one string: braces, quotes, and the string as
\* repr writes it, a newline as backslash-n.
ReprOfSet(text) ==
    <<Atom("{'", 1, 0)>>
        \o [i \in 1..Len(text) |-> IF text[i] = NL THEN EscapedNL ELSE text[i]]
        \o <<Atom("'}", 1, 0)>>

\* combine_analyses: combined_analyses = {'\n\n'.join(analyses)}, a set, put
\* into the prompt by the f-string.
MergeInput(analyses) == ReprOfSet(Join(analyses, <<NL, NL>>))

\* Variant: a combine_analyses without its early return.
NothingFoundNever(analyses) == FALSE

\* combine_analyses: `if not analyses`
NothingFound(analyses) == analyses = <<>>

\* final_analysis = self.combine_analyses(all_analyses)
CombineAnalyses ==
    /\ apc = "chunks"
    /\ ci > Len(FileChunks(a_diff))
    /\ \E outcome \in LlmOutcomes :
          IF NothingFound(all_analyses)
          THEN /\ final_analysis' = NoIssuesText
               /\ UNCHANGED llm_calls
          ELSE LET k == Len(llm_calls) + 1
                   got == AnalyzeSingleChunk(outcome, k) IN
               /\ llm_calls' = Append(llm_calls,
                      [kind |-> "merge", ci |-> 0, text |-> MergeInput(all_analyses),
                       outcome |-> outcome, got |-> got])
               /\ final_analysis' = IF outcome = "raise"
                                    THEN Fallback(all_analyses) ELSE got
    /\ apc' = "record"
    /\ UNCHANGED <<a_diff, ci, all_analyses, recorded, serviceVars, normalizerVars, clockVars>>

\* analyze_diff: input_tokens=sum(len(a.split()) for a in all_analyses)
RECURSIVE InputTokens(_)
InputTokens(analyses) ==
    IF analyses = <<>> THEN 0 ELSE Words(Head(analyses)) + InputTokens(Tail(analyses))

\* analyze_diff: output_tokens=len(final_analysis.split())
OutputTokens(text) == Words(text)

\* self.metrics.record_llm_metrics(...); return final_analysis. What the try
\* block lets out reaches the handler, whose own call raises NameError.
RecordAndReturn ==
    /\ apc = "record"
    /\ \E raises \in BOOLEAN :
          IF raises THEN apc' = "raised" /\ UNCHANGED <<db, recorded>>
          ELSE /\ apc' = "done"
               /\ db' = RecordLlmMetrics(db, current_pr_number, "")
               /\ recorded' = <<[pr_number |-> current_pr_number,
                                 input_tokens |-> InputTokens(all_analyses),
                                 output_tokens |-> OutputTokens(final_analysis)]>>
    /\ UNCHANGED <<a_diff, ci, all_analyses, final_analysis, llm_calls, comments,
                   pr_queue, discVars, workerVars, faults, normalizerVars, clockVars>>

\* analyze_diff called on any of the diffs
AnalysisInit ==
    /\ ServiceInit
    /\ NormalizerIdle
    /\ ClockIdle
    /\ a_diff \in InputDiffs
    /\ ci = 1
    /\ all_analyses = <<>>
    /\ final_analysis = <<>>
    /\ apc = "chunks"
    /\ llm_calls = <<>>
    /\ recorded = <<>>

AnalysisNext == AnalyzeChunk \/ CombineAnalyses \/ RecordAndReturn

AnalysisSpec == AnalysisInit /\ [][AnalysisNext]_vars

\* ------------------------------------------------------------ reading the calls
ChunkCalls == SelectSeq(llm_calls, LAMBDA c : c.kind = "chunk")

MergeCalls == SelectSeq(llm_calls, LAMBDA c : c.kind = "merge")

\* the non-empty findings of the per-chunk calls, in the order of the calls
NonEmptyFindings == MapFinding(SelectSeq(ChunkCalls, IsFinding))

\* the texts sent for the j-th file chunk
SentFor(j) ==
    LET calls == SelectSeq(ChunkCalls, LAMBDA c : c.ci = j) IN
    [g \in 1..Len(calls) |-> calls[g].text]

RECURSIVE Flatten(_)
Flatten(seqs) == IF seqs = <<>> THEN <<>> ELSE Head(seqs) \o Flatten(Tail(seqs))

\* the texts that analyze_diff has to send for its first n file chunks
ExpectedSends(n) == Flatten([j \in 1..n |-> Sends(FileChunks(a_diff)[j])])

\* the file chunks the loop is through with
ChunksDone ==
    1..(IF ci - 1 <= Len(FileChunks(a_diff)) THEN ci - 1 ELSE Len(FileChunks(a_diff)))

Subdivided(j) == Words(FileChunks(a_diff)[j]) > TokenCeiling

Returning == apc \in {"record", "done"}

\* sum(len(block.split()) for block in blocks)
RECURSIVE SumWords(_)
SumWords(blocks) ==
    IF blocks = <<>> THEN 0 ELSE Words(Head(blocks)) + SumWords(Tail(blocks))

\* C13 as claimed: no text sent to a per-chunk inference call has an estimate
\* above the ceiling (an oversized block being cut down to it).
SentWithinCeiling ==
    \A i \in 1..Len(ChunkCalls) : Words(ChunkCalls[i].text) <= TokenCeiling

\* C14: for a file that is subdivided, the texts sent, put together again
\* with the hunk marker, are the file's text; every change block is in exactly
\* one of them, in source order; and the packing is greedy: a text holds
\* blocks whose estimates sum to no more than the ceiling (or it holds one
\* block), and the block that starts the next text did not fit.
ChunkingLosesNothing ==
    LET file_chunks == FileChunks(a_diff)
        calls == ChunkCalls IN
    \A j \in ChunksDone :
        Words(file_chunks[j]) > TokenCeiling =>
            LET chunk == file_chunks[j]
                mine == SelectSeq(calls, LAMBDA c : c.ci = j)
                sent == [g \in 1..Len(mine) |-> mine[g].text]
                groups == [g \in 1..Len(sent) |-> Split(sent[g], BlockSeparator)]
                sums == [g \in 1..Len(sent) |-> SumWords(groups[g])] IN
            /\ Join(sent, BlockSeparator) = chunk
            /\ Flatten(groups) = Split(chunk, BlockSeparator)
            /\ \A g \in 1..Len(sent) :
                  /\ Len(groups[g]) >= 1
                  /\ Len(groups[g]) = 1 \/ sums[g] <= TokenCeiling
                  /\ g < Len(sent) => sums[g] + Words(groups[g + 1][1]) > TokenCeiling

\* C14 witness: a file was subdivided into two texts, the first of several
\* blocks.
SubdividedInTwo ==
    \E j \in ChunksDone :
        /\ Subdivided(j)
        /\ Len(SentFor(j)) = 2
        /\ Len(Split(SentFor(j)[1], BlockSeparator)) >= 3

\* C15: when no per-chunk call gave a non-empty finding, analyze_diff returns
\* the fixed no-issues text and has made the per-chunk calls only.
NoFindingNoMergeCall ==
    (Returning /\ NonEmptyFindings = <<>>)
        => /\ final_analysis = NoIssuesText
           /\ MergeCalls = <<>>
           /\ Len(llm_calls) = Len(ExpectedSends(Len(FileChunks(a_diff))))

\* C15 witness: analyze_diff has returned after two per-chunk calls, one that
\* answered with white space and one that failed.
ReturnedWithoutFinding ==
    /\ apc = "done"
    /\ NonEmptyFindings = <<>>
    /\ \E i, j \in 1..Len(llm_calls) :
          llm_calls[i].outcome = "blank" /\ llm_calls[j].outcome = "raise"

MergeFailed == MergeCalls # <<>> /\ MergeCalls[Len(MergeCalls)].outcome = "raise"

\* C16: when the merge call fails, analyze_diff returns the non-empty
\* findings, each as it reads, in the order of the chunks, with the separator
\* (which holds a word, so it shows) between one and the next.
MergeFailureKeepsFindings ==
    (Returning /\ MergeFailed)
        => /\ Split(final_analysis, FallbackSeparator) = NonEmptyFindings
           /\ \A i \in 1..Len(NonEmptyFindings) :
                 Contains(final_analysis, NonEmptyFindings[i])
           /\ Words(FallbackSeparator) >= 1
           /\ Len(Split(final_analysis, FallbackSeparator)) = Len(NonEmptyFindings)

\* C16 witness: the merge call failed with two findings in hand, one of them
\* of two lines.
MergeFailedWithTwoFindings ==
    /\ apc = "done"
    /\ MergeFailed
    /\ Len(NonEmptyFindings) = 2
    /\ \E i \in 1..2 : Len(NonEmptyFindings[i]) = 3

\* C17: a per-chunk call that fails gives no finding and nothing else: every
\* text that was to be sent has had its call, the findings of the other calls
\* are all kept, in order, and the loop over the chunks is never left early.
FailedChunkCallIsPassedOver ==
    LET calls == ChunkCalls
        expected == ExpectedSends(Cardinality(ChunksDone)) IN
    /\ \A i \in 1..Len(calls) : calls[i].outcome = "raise" => calls[i].got = <<>>
    /\ [i \in 1..Len(calls) |-> calls[i].text] = expected
    /\ all_analyses = NonEmptyFindings
    /\ apc = "raised" => ci > Len(FileChunks(a_diff))

\* C17 witness: analyze_diff has returned; a per-chunk call failed and a later
\* one gave a finding.
FailedThenFound ==
    /\ apc = "done"
    /\ \E i, j \in 1..Len(ChunkCalls) :
          /\ i < j
          /\ ChunkCalls[i].outcome = "raise"
          /\ ChunkCalls[j].got # <<>>

\* C20 as claimed: with at least one non-empty finding, analyze_diff makes one
\* merge call, after the per-chunk calls, and its input holds every non-empty
\* finding as it reads.
MergeInputHoldsFindings ==
    (Returning /\ NonEmptyFindings # <<>>)
        => /\ Len(MergeCalls) = 1
           /\ Len(llm_calls) = Len(ExpectedSends(Len(FileChunks(a_diff)))) + 1
           /\ llm_calls[Len(llm_calls)].kind = "merge"
           /\ \A i \in 1..Len(NonEmptyFindings) :
                 Contains(MergeCalls[1].text, NonEmptyFindings[i])

\* What holds of the merge call: it is made once, after the per-chunk calls,
\* and its input is str() of the set of the findings joined by a blank line.
MergeCalledOnce ==
    (Returning /\ NonEmptyFindings # <<>>)
        => /\ Len(MergeCalls) = 1
           /\ Len(llm_calls) = Len(ExpectedSends(Len(FileChunks(a_diff)))) + 1
           /\ llm_calls[Len(llm_calls)].kind = "merge"
           /\ MergeCalls[1].text = ReprOfSet(Join(NonEmptyFindings, <<NL, NL>>))

\* ------------------------------------------------------------ process_diff_content
SkipExtensions == {".lock", ".json", ".md", ".txt", ".yaml", ".yml", ".mod", ".sum"}
SkipPaths == {"tests/", "docs/", "vendor/", "migrations/"}

\* `if diff_length > 500`, `chunk[:1000]`
LargeDiffWords == 500
FileCharBudget == 1000

DiffGit == Atom("diff --git", 2, 0)
Plus == Atom("+", 1, 0)
Minus == Atom("-", 1, 0)
TruncatedMark == Atom("[truncated...]", 1, 0)

\* `path in filepath`, `ext in filepath`: the string is somewhere in the path
HasAny(filepath, strings) == \E i \in 1..Len(filepath) : filepath[i].s \in strings

\* The paths of the files of a raw diff; the atoms of file f carry k = f.
PathKinds == {"plain", "lib", "docs", "md"}

PathOf(kind, f) ==
    CASE kind = "plain" -> <<Atom("src/", 1, f), Atom("app", 1, f), Atom(".py", 1, f)>>
      [] kind = "lib" -> <<Atom("li", 1, f), Atom("b/", 1, f), Atom("db", 1, f), Atom(".py", 1, f)>>
      [] kind = "docs" -> <<Atom("docs/", 1, f), Atom("guide", 1, f), Atom(".rst", 1, f)>>
      [] OTHER -> <<Atom("README", 1, f), Atom(".md", 1, f)>>

\* git diff writes `diff --git a/<path> b/<path>`, and with no_prefix=True,
\* as get_pr_diff asks for it, `diff --git <path> <path>`.
HeaderForms == {"prefixed", "bare"}

HeaderLine(form, path) ==
    IF form = "prefixed"
    THEN <<DiffGit, Space, Atom("a/", 1, 0)>> \o path \o <<Space, Atom("b/", 1, 0)>> \o path
    ELSE <<DiffGit, Space>> \o path \o <<Space>> \o path

\* What follows the header of file f: nothing; the lines git writes for a
\* small change; one hunk with a line of 600 one-letter words; one hunk with
\* a line of 3500.
BodyKinds == {"none", "small", "long", "huge"}

BodyLines(kind, path, f) ==
    CASE kind = "none" -> <<>>
      [] kind = "small" ->
            << <<Atom("index ", 1, 0), Atom("1a2b..3c4d", 1, f)>>,
               <<Atom("---", 1, 0), Space>> \o path,
               <<Atom("+++", 1, 0), Space>> \o path,
               <<Atom("@@ ", 1, 0), Atom("-1,3 +1,3 @@", 3, f)>>,
               <<Space, Atom("kept", 1, f)>>,
               <<Minus, Atom("old", 1, f)>>,
               <<Plus, Atom("new", 1, f)>>,
               <<Atom("\\ No newline at end of file", 7, f)>> >>
      [] kind = "long" ->
            << <<Atom("@@ ", 1, 0), Atom("-1 +1 @@", 3, f)>>,
               <<Plus, Atom("words", 600, f)>> >>
      [] OTHER ->
            << <<Atom("@@ ", 1, 0), Atom("-1 +1 @@", 3, f)>>,
               <<Plus, Atom("words", 3500, f)>> >>

FileKinds == PathKinds \X BodyKinds

RawFile(form, kind, f) ==
    LET path == PathOf(kind[1], f) IN
    Join(<<HeaderLine(form, path)>> \o BodyLines(kind[2], path, f), <<NL>>)

\* one git diff: every header in the same form
RawDiffOf(form, kinds) ==
    Join([f \in 1..Len(kinds) |-> RawFile(form, kinds[f], f)], <<NL>>)

FileKindLists == UNION {[1..n -> FileKinds] : n \in 0..MaxFiles}

RawDiffs == {RawDiffOf(form, kinds) : form \in HeaderForms, kinds \in FileKindLists}

\* line.startswith(p), for the strings the code asks about: what an atom
\* reads begins with itself, and '+++' with '+', '---' with '-'.
PrefixesOf(string) ==
    CASE string = "+++" -> {"+", "+++"}
      [] string = "---" -> {"-", "---"}
      [] OTHER -> {string}

LineStartsWith(line, string) == line # <<>> /\ string \in PrefixesOf(Head(line).s)

\* re.search(r'b/(.+)$', line): the first 'b/' that has something after it;
\* 0 when there is none.
FileMatch(line) ==
    LET hits == {i \in 1..(Len(line) - 1) : line[i].s = "b/"} IN
    IF hits = {} THEN 0 ELSE CHOOSE i \in hits : \A j \in hits : i <= j

\* One turn of `for line in lines`. current_file is <<>> for None.
LineStep(line, current_file, processed_chunks) ==
    IF LineStartsWith(line, "diff --git")
    THEN LET spaced == IF current_file # <<>>
                       THEN Append(processed_chunks, <<>>) ELSE processed_chunks
             at_b == FileMatch(line)
             filepath == SubSeq(line, at_b + 1, Len(line)) IN
         IF at_b = 0 THEN [current_file |-> current_file, processed_chunks |-> spaced]
         ELSE IF HasAny(filepath, SkipPaths)
         THEN [current_file |-> <<>>, processed_chunks |-> spaced]
         ELSE IF HasAny(filepath, SkipExtensions)
         THEN [current_file |-> <<>>, processed_chunks |-> spaced]
         ELSE [current_file |-> filepath,
               processed_chunks |->
                   Append(IF current_file # <<>>
                          THEN Append(spaced, <<FileTag>> \o current_file) ELSE spaced,
                          <<FileTag>> \o filepath)]
    ELSE IF current_file = <<>>
    THEN [current_file |-> current_file, processed_chunks |-> processed_chunks]
    ELSE IF \/ LineStartsWith(line, "index ")
            \/ LineStartsWith(line, "+++")
            \/ LineStartsWith(line, "---")
    THEN [current_file |-> current_file, processed_chunks |-> processed_chunks]
    ELSE IF LineStartsWith(line, "+") \/ LineStartsWith(line, "-")
    THEN [current_file |-> current_file, processed_chunks |-> Append(processed_chunks, line)]
    ELSE IF LineStartsWith(line, "@@ ")
    THEN [current_file |-> current_file,
          processed_chunks |-> Append(processed_chunks, <<ChangesMarker>>)]
    ELSE IF Strip(line) # <<>> /\ ~LineStartsWith(line, " ") /\ ~LineStartsWith(line, "\t")
    THEN [current_file |-> current_file,
          processed_chunks |-> Append(processed_chunks, <<Space>> \o line)]
    ELSE [current_file |-> current_file, processed_chunks |-> processed_chunks]

RECURSIVE LineLoop(_, _, _, _)
LineLoop(lines, i, current_file, processed_chunks) ==
    IF i > Len(lines) THEN processed_chunks
    ELSE LET after == LineStep(lines[i], current_file, processed_chunks) IN
         LineLoop(lines, i + 1, after.current_file, after.processed_chunks)

\* the characters of an atom; "words" stands for n words of one letter with
\* one blank between them
Chars(atom) == IF atom.s = "words" THEN 2 * atom.n - 1 ELSE Len(atom.s)

\* chunk[:budget]; an atom cut in two keeps the words that fit
RECURSIVE CutChars(_, _)
CutChars(text, budget) ==
    IF text = <<>> \/ budget <= 0 THEN <<>>
    ELSE LET atom == Head(text) IN
         IF Chars(atom) <= budget
         THEN <<atom>> \o CutChars(Tail(text), budget - Chars(atom))
         ELSE IF atom.s = "words"
         THEN <<Atom("words", (budget + 1) \div 2, atom.k)>>
         ELSE <<Atom("cut", atom.n, atom.k)>>

\* Variant: a process_diff_content without the guard of its last lines.
ProcessDiffContentUnguarded(text) ==
    Join(LineLoop(Split(text, <<NL>>), 1, <<>>, <<>>), <<NL>>)

\* process_diff_content
ProcessDiffContent(text) ==
    LET result == Join(LineLoop(Split(text, <<NL>>), 1, <<>>, <<>>), <<NL>>)
        chunks == Split(result, <<FileTag>>)
        processed == [c \in 1..(Len(chunks) - 1) |->
                         <<FileTag>> \o CutChars(chunks[c + 1], FileCharBudget)
                            \o <<NL, TruncatedMark>>] IN
    IF Words(result) > LargeDiffWords THEN Join(processed, <<NL>>) ELSE result

\* processed_diff = self.process_diff_content(diff)
Normalize ==
    /\ npc = "raw"
    /\ normalized' = ProcessDiffContent(raw_diff)
    /\ npc' = "normalized"
    /\ UNCHANGED <<raw_diff, renormalized, serviceVars, analysisVars, clockVars>>

\* process_diff_content given its own output
NormalizeAgain ==
    /\ npc = "normalized"
    /\ renormalized' = ProcessDiffContent(normalized)
    /\ npc' = "again"
    /\ UNCHANGED <<raw_diff, normalized, serviceVars, analysisVars, clockVars>>

\* process_diff_content called on any of the raw diffs
NormalizerInit ==
    /\ ServiceInit
    /\ AnalysisIdle
    /\ ClockIdle
    /\ raw_diff \in RawDiffs
    /\ normalized = <<>>
    /\ renormalized = <<>>
    /\ npc = "raw"

NormalizerNext == Normalize \/ NormalizeAgain

NormalizerSpec == NormalizerInit /\ [][NormalizerNext]_vars

\* ------------------------------------------------------------ reading the texts
\* the files of raw_diff, and those whose path an exclusion rule matches
RawFiles == {raw_diff[i].k : i \in 1..Len(raw_diff)} \ {0}

PathAtoms(f) == {raw_diff[i].s : i \in {j \in 1..Len(raw_diff) : raw_diff[j].k = f}}

Excluded(f) == PathAtoms(f) \cap (SkipPaths \cup SkipExtensions) # {}

\* C18 as claimed: nothing of an excluded file is in the normalized text,
\* neither its path in a 'File:' line nor any of its lines.
ExcludedFileLeavesNothing ==
    npc \in {"normalized", "again"}
        => \A i \in 1..Len(normalized) :
              normalized[i].k \in RawFiles => ~Excluded(normalized[i].k)

\* C19 as claimed: process_diff_content, given a text it returned, returns
\* that text.
NormalizerIsIdempotent ==
    (npc = "again" /\ \A f \in RawFiles : ~Excluded(f)) => renormalized = normalized

\* What holds of the exclusions: in a diff whose headers carry the a/ and b/
\* prefixes, nothing of an excluded file is in the normalized text.
ExcludedFileLeavesNothingWhenPrefixed ==
    (npc \in {"normalized", "again"} /\ Contains(raw_diff, <<Atom("a/", 1, 0)>>))
        => \A i \in 1..Len(normalized) :
              normalized[i].k \in RawFiles => ~Excluded(normalized[i].k)

\* What holds of a second pass: a normalized text has no 'diff --git' line,
\* so nothing of it is kept.
SecondPassReturnsNothing == npc = "again" => renormalized = <<>>

\* the 'File:' lines of the normalized text that name file f
HeaderCount(f) ==
    Cardinality({i \in 1..(Len(normalized) - 1) :
                    normalized[i] = FileTag /\ normalized[i + 1].k = f})

\* the file whose 'File:' line is the last one at or before position i (0: none)
SectionAt(i) ==
    LET tags == {j \in 1..i : normalized[j] = FileTag /\ j < Len(normalized)} IN
    IF tags = {} THEN 0
    ELSE normalized[(CHOOSE j \in tags : \A h \in tags : h <= j) + 1].k

\* C21 as claimed: each kept file of the raw diff has exactly one 'File:'
\* line in the normalized text, the sections come in the order of the input,
\* and whatever the text holds of a file sits in that file's section.
EveryHeaderStartsItsSection ==
    npc \in {"normalized", "again"} =>
        /\ \A f \in RawFiles : ~Excluded(f) => HeaderCount(f) = 1
        /\ \A i \in 1..Len(normalized) :
              normalized[i].k \in RawFiles => SectionAt(i) = normalized[i].k
        /\ \A i, j \in 1..Len(normalized) :
              (i < j /\ normalized[i].k \in RawFiles /\ normalized[j].k \in RawFiles)
                  => normalized[i].k <= normalized[j].k

\* ------------------------------------------------------------ more of the service
\* C22: an iteration that finds its PR in the processed-set has done three
\* things when it is over, start the metric, ask the processed-set, end as
\* skipped: no diff, no analysis, no post, no mark, no history; and the step
\* that ends it leaves the processed-set, the review history and the comments
\* on GitHub as they were.
SkipDoesNothingElse ==
    /\ [](\A w \in Workers :
            HasEvent(w, "is_pr_processed", "yes")
                => events[w] = <<Event("start_pr_processing", "processing", ""),
                                 Event("is_pr_processed", "yes", ""),
                                 Event("end_pr_processing", "skipped", "")>>)
    /\ [][\A w \in Workers :
            (/\ wpc[w] = "check"
             /\ Len(events'[w]) = Len(events[w]) + 2
             /\ events'[w][Len(events[w]) + 1] = Event("is_pr_processed", "yes", ""))
                => /\ db'.processed_prs = db.processed_prs
                   /\ db'.review_history = db.review_history
                   /\ comments' = comments
                   /\ wpc'[w] = "get"]_vars

\* C22 witness: an iteration of three events has ended, its PR being in the
\* processed-set with its one comment and its one history row.
SkippedInThreeEvents ==
    \E w \in Workers :
        /\ Len(events[w]) = 3
        /\ LastEvent(w).status = "skipped"
        /\ wpc[w] = "get"
        /\ IsPrProcessed(db, pr[w])
        /\ Len(db.review_history) = 1

\* the iteration of w is over and its post returned False
PostFailed(w) == Over(w) /\ HasEvent(w, "submit_review_comment", "false")

\* the store holds a metric row of this PR closed with this status and text
ClosedRow(store, pr_number, status, error_message) ==
    \E i \in 1..Len(store.pr_metrics) :
        /\ store.pr_metrics[i].pr_number = pr_number
        /\ store.pr_metrics[i].status = status
        /\ store.pr_metrics[i].error_message = error_message

\* C23 as claimed: after an iteration whose post returned False the PR is not
\* in the processed-set, has no review-history row, its metric row in the store
\* is closed as failed with 'Failed to submit review', and the worker is back
\* at the queue.
PostFailureClosesRowFailed ==
    \A w \in Workers :
        PostFailed(w) =>
            /\ ~IsPrProcessed(db, pr[w])
            /\ HistoryRows(db, pr[w]) = 0
            /\ ClosedRow(db, pr[w], "failed", FailedToSubmitReview)
            /\ wpc[w] = "get"

\* What holds of C23: all of it but the row; the iteration's last call is
\* end_pr_processing(metric_id, 'failed', 'Failed to submit review').
PostFailureLeavesNoTrace ==
    \A w \in Workers :
        PostFailed(w) =>
            /\ ~IsPrProcessed(db, pr[w])
            /\ HistoryRows(db, pr[w]) = 0
            /\ LastEvent(w) = Event("end_pr_processing", "failed", FailedToSubmitReview)
            /\ wpc[w] = "get"

\* ------------------------------------------------------------ the token accounting
\* the word counts of the texts sent by the per-chunk calls, summed
RECURSIVE SentWords(_)
SentWords(calls) ==
    IF calls = <<>> THEN 0 ELSE Words(Head(calls).text) + SentWords(Tail(calls))

\* C24 as claimed: what analyze_diff records for a change-set has input_tokens
\* equal to the sum of the word counts of the chunk texts sent to inference,
\* and output_tokens equal to the word count of the text it returns.
RecordedTokensAreSentAndReturned ==
    apc = "done" =>
        /\ Len(recorded) = 1
        /\ recorded[1].input_tokens = SentWords(ChunkCalls)
        /\ recorded[1].output_tokens = Words(final_analysis)

\* What holds of C24: the output half, and what input_tokens is in the code,
\* the word counts of the findings the calls returned.
RecordedTokensAreFindingsAndReturned ==
    apc = "done" =>
        /\ Len(recorded) = 1
        /\ recorded[1].input_tokens = SumWords(NonEmptyFindings)
        /\ recorded[1].output_tokens = Words(final_analysis)

\* ------------------------------------------------------------ run against the wall clock
\* The clock counts ticks of half a minute: datetime.now().minute is 0 during
\* the first two ticks of an hour.
MinuteTicks == 2

HourTicks == 60 * MinuteTicks

\* datetime.now().minute
Minute(t) == (t % HourTicks) \div MinuteTicks

\* Config.CHECK_INTERVAL: 30 s, the default 300 s, 420 s
CheckIntervals == {1, 10, 14}

\* what check_new_prs takes, listing included: no time to speak of, half a minute
CheckDurations == {0, 1}

\* when run is entered: on the hour, one minute past
StartTicks == {0, 2}

\* One turn of run's `while True`, with GitHub listing no open pull request:
\* check_new_prs, then `if datetime.now().minute == 0: update_daily_metrics()`,
\* then sleep(CHECK_INTERVAL); when check_new_prs raises, the handler sleeps.
RunCycle ==
    /\ check_interval > 0
    /\ now < MaxHours * HourTicks
    /\ \E took \in CheckDurations, raises \in BOOLEAN :
          LET t == now + took
              onTheHour == ~raises /\ Minute(t) = 0
              h == t \div HourTicks IN
          /\ db' = IF onTheHour THEN UpdateDailyMetrics(db) ELSE db
          /\ triggers' = IF onTheHour /\ h \in Hours
                         THEN [triggers EXCEPT ![h] = @ + 1] ELSE triggers
          /\ now' = t + check_interval
    /\ UNCHANGED <<started, check_interval, comments, pr_queue, discVars, workerVars,
                   faults, analysisVars, normalizerVars>>

\* run entered at some time of day with some configured interval
ClockInit ==
    /\ ServiceInit
    /\ AnalysisIdle
    /\ NormalizerIdle
    /\ started \in StartTicks
    /\ now = started
    /\ check_interval \in CheckIntervals
    /\ triggers = [h \in Hours |-> 0]

ClockNext == RunCycle

ClockSpec == ClockInit /\ [][ClockNext]_vars

\* hour h began and ended while run was looping
RanThrough(h) == started <= h * HourTicks /\ now >= (h + 1) * HourTicks

\* the rollup of the day's rows as update_daily_metrics computes it
RollupOf(store) ==
    [prs_processed |-> Len(store.pr_metrics),
     successful_reviews |-> CountStatus(store.pr_metrics, TRUE),
     failed_reviews |-> CountStatus(store.pr_metrics, FALSE),
     llm_rows |-> Len(store.llm_metrics)]

\* C25 as claimed: in every clock hour the scheduler runs through, exactly one
\* cycle calls update_daily_metrics, whatever the interval; and once it was
\* called the store holds one rollup row, the aggregate of the day's rows.
RollupOncePerHour ==
    /\ \A h \in Hours : RanThrough(h) => triggers[h] = 1
    /\ (\E h \in Hours : triggers[h] > 0) => db.daily_metrics = <<RollupOf(db)>>

\* C25, the clock alone
OneTriggerPerHour == \A h \in Hours : RanThrough(h) => triggers[h] = 1

\* C25, the store alone
TriggerLeavesRollupRow ==
    (\E h \in Hours : triggers[h] > 0) => db.daily_metrics = <<RollupOf(db)>>

\* What holds of C25: update_daily_metrics is called only during the first
\* minute of an hour.
TriggersOnlyOnTheHour ==
    [][\A h \in Hours : triggers'[h] # triggers[h] => Minute(now' - check_interval) = 0]_vars

\* ------------------------------------------------------------ the empty diff
\* the iteration of w is over, its diff fetched and normalized to ''
DiffWasEmpty(w) == Over(w) /\ HasEvent(w, "get_pr_diff", "empty")

\* the iteration of w is over, its fetch having failed in git
FetchFailed(w) == Over(w) /\ HasEvent(w, "get_pr_diff", "none")

\* C26 as claimed: an iteration whose diff normalized to the empty text ends
\* as one whose fetch failed does: the metric row closed as failed with
\* 'Failed to get diff', no analysis, no post, the PR not in the
\* processed-set; and a later cycle that lists the PR puts it on the queue.
EmptyDiffClosesRowFailed ==
    \A w \in Workers :
        DiffWasEmpty(w) =>
            /\ ClosedRow(db, pr[w], "failed", FailedToGetDiff)
            /\ Len(events[w]) = 4
            /\ ~HasEvent(w, "analyze_diff", "ok")
            /\ ~IsPrProcessed(db, pr[w])
            /\ ShouldEnqueue(db, pr[w])

\* What holds of C26: the calls of the two iterations are the same but for
\* what get_pr_diff returned, the last being end_pr_processing(metric_id,
\* 'failed', 'Failed to get diff'); nothing is sent or posted, and the PR stays
\* outside the processed-set, so check_new_prs enqueues it when it lists it.
EmptyDiffEndsAsFailedFetch ==
    \A w \in Workers :
        (DiffWasEmpty(w) \/ FetchFailed(w)) =>
            /\ Len(events[w]) = 4
            /\ SubSeq(events[w], 1, 2) = <<Event("start_pr_processing", "processing", ""),
                                           Event("is_pr_processed", "no", "")>>
            /\ events[w][3].op = "get_pr_diff"
            /\ events[w][4] = Event("end_pr_processing", "failed", FailedToGetDiff)
            /\ ~IsPrProcessed(db, pr[w])
            /\ ShouldEnqueue(db, pr[w])
            /\ wpc[w] = "get"

\* ------------------------------------------------------------ the coarse guard
\* C27: no per-file chunk analyze_diff makes of a text the normalizer returned
\* has an estimate above the ceiling, so it sends each chunk as it is and
\* never subdivides one.
NormalizedChunksFitCeiling ==
    npc \in {"normalized", "again"} =>
        LET file_chunks == FileChunks(normalized) IN
        \A j \in 1..Len(file_chunks) :
            /\ Words(file_chunks[j]) <= TokenCeiling
            /\ Sends(file_chunks[j]) \in {<<>>, <<file_chunks[j]>>}

\* C27 witness: a raw diff of more words than the ceiling, its file kept, was
\* normalized: the guard cut the file and marked the cut.
GuardCutAnOversizedFile ==
    /\ npc = "normalized"
    /\ Words(raw_diff) > TokenCeiling
    /\ Contains(normalized, <<NL, TruncatedMark>>)
    /\ \E i \in 1..Len(normalized) :
          normalized[i].s = "words" /\ normalized[i].n < TokenCeiling

\* ------------------------------------------------------------ every item ends
\* C28 as claimed: with the worker scheduled fairly and the process not dying,
\* whatever is on the queue is dequeued, and the iteration that dequeued it
\* ends with its metric closed as completed, failed or skipped.
EveryQueuedItemEndsWithStatus ==
    \A w \in Workers :
        /\ [](pr_queue # <<>> => <>(wpc[w] = "start" \/ pr_queue = <<>>))
        /\ [](wpc[w] = "start"
                => <>(\/ HasEvent(w, "crash", "")
                      \/ /\ Finished(w)
                         /\ LastEvent(w).status \in {"completed", "failed", "skipped"}))

\* What holds of C28: whatever is on the queue is dequeued, and every
\* iteration comes to an end, the worker being back at the queue.
EveryQueuedItemIsTakenAndLeft ==
    \A w \in Workers :
        /\ [](pr_queue # <<>> => <>(wpc[w] = "start" \/ pr_queue = <<>>))
        /\ [](wpc[w] = "start" => <>(Over(w) /\ wpc[w] = "get"))

====
